---- MODULE Spec2Model ----
(***************************************************************************)
(* Model of slimwrap.SLiMModel (src/slimwrap/python/slimwrap.py): the      *)
(* handle that owns a temporary model file, validates it with `slim -c`,   *)
(* and runs `slim` with a seed and constants staged through a temporary    *)
(* JSON parameter file.                                                    *)
(***************************************************************************)
EXTENDS Integers, Sequences, FiniteSets, TLC

VARIABLES
    fs,       \* the temporary-file namespace: path -> file
    handle,   \* the SLiMModel objects: attributes set so far
    pc,       \* per object: "idle", or "running" while run() waits in subprocess.run
    frame,    \* per object: the locals of the run() call in progress
    last      \* the call that has just completed: its arguments and how it ended

vars == <<fs, handle, pc, frame, last>>

(***************************************************************************)
(* Bounds                                                                  *)
(***************************************************************************)
NumHandles == 1
NumPaths == 2

Handles == 1..NumHandles
Paths == 1..NumPaths
NoPath == 0

(***************************************************************************)
(* Files                                                                   *)
(***************************************************************************)
NoFile == [exists |-> FALSE, kind |-> "none", text |-> "", entries |-> <<>>,
           complete |-> FALSE, closed |-> TRUE]

ModelFile(text, closed) ==
    [exists |-> TRUE, kind |-> "model", text |-> text, entries |-> <<>>,
     complete |-> closed, closed |-> closed]

ParamFile(entries, complete) ==
    [exists |-> TRUE, kind |-> "param", text |-> "", entries |-> entries,
     complete |-> complete, closed |-> TRUE]

\* tempfile.NamedTemporaryFile(delete=False): a name no existing file has.
\* Names are opaque and no property below mentions a particular one, so the
\* least unused name stands for every unused name.
FreePaths_any(f) == DOMAIN f
FreePaths(f) ==
    LET unused == {p \in DOMAIN f : ~f[p].exists}
    IN  {p \in unused : \A q \in unused : p <= q}

\* os.remove(path): the file is gone when the removal succeeds
os_remove_leaky(f, p) == f
os_remove(f, p) == [f EXCEPT ![p] = NoFile]

\* whether os.remove(path) raises: the file is missing, or the OS refuses
RemoveRaises(f, p, rmOk) == ~f[p].exists \/ ~rmOk

(***************************************************************************)
(* Values a caller passes                                                  *)
(***************************************************************************)
RECURSIVE Size(_)
Size(shape) == IF shape = <<>> THEN 1 ELSE Head(shape) * Size(Tail(shape))

\* index tuple (1-based) of the k-th element (0-based) in C order
RECURSIVE Unravel(_, _)
Unravel(k, shape) ==
    IF shape = <<>> THEN <<>>
    ELSE LET n == Len(shape)
             inner == shape[n]
         IN  Append(Unravel(k \div inner, SubSeq(shape, 1, n - 1)), (k % inner) + 1)

Indices(shape) == {Unravel(k, shape) : k \in 0..(Size(shape) - 1)}

RECURSIVE Entry(_)
Entry(ix) == IF ix = <<>> THEN 7 ELSE 10 * Entry(SubSeq(ix, 1, Len(ix) - 1)) + ix[Len(ix)]

Val(kind, shape) ==
    [kind |-> kind, shape |-> shape, elem |-> [ix \in Indices(shape) |-> Entry(ix)]]

Scalar == Val("scalar", <<>>)
Unserializable == Val("object", <<>>)
PyList == Val("list", <<2>>)
Vec == Val("ndarray", <<3>>)
Mat == Val("ndarray", <<2, 3>>)
Cube == Val("ndarray", <<1, 2, 2>>)

ndim(value) == Len(value.shape)

\* numpy.ndarray.flatten().tolist(): the elements in row-major (C) order
flatten_colmajor(value) ==
    LET rev(t) == [i \in 1..Len(t) |-> t[Len(t) + 1 - i]]
    IN  [k \in 1..Size(value.shape) |->
            value.elem[rev(Unravel(k - 1, rev(value.shape)))]]
flatten(value) ==
    [k \in 1..Size(value.shape) |-> value.elem[Unravel(k - 1, value.shape)]]

Item(key, value) == [key |-> key, value |-> value]

NoneArg == [t |-> "none", items |-> <<>>]
NotADict == [t |-> "other", items |-> <<>>]
Dict(items) == [t |-> "dict", items |-> items]

ConstantsArgs ==
    { NoneArg, NotADict, Dict(<<>>),
      Dict(<<Item("m", Mat), Item("a", Scalar), Item("v", Vec)>>),
      Dict(<<Item("c", Cube), Item("a", Scalar)>>),
      Dict(<<Item("l", PyList), Item("c", Cube)>>),
      Dict(<<Item("a", Scalar), Item("o", Unserializable)>>) }

\* Integers wider than the checker's are kept as two 16-bit limbs <<hi, lo>>
Limb == 65536
Wide(n) == <<n \div Limb, n % Limb>>

\* seed arguments: None, an int, a float (v is in tenths), a non-numeric string
SeedArg(t, v) == [t |-> t, v |-> v]
SeedArgs == { SeedArg("none", 0), SeedArg("int", 1000), SeedArg("float", 10005),
              SeedArg("badstr", 0) }

\* np.random.randint(1, 2**32, 1)[0]: low inclusive, high (Limb * Limb) exclusive
RandomSeeds == {<<0, 1>>, <<Limb - 1, Limb - 1>>}

\* int(seed): whether it raises, and its value
IntRaises_never(seed) == FALSE
IntRaises(seed) == seed.t = "badstr"
IntOf(seed) == IF seed.t = "float" THEN Wide(seed.v \div 10) ELSE Wide(seed.v)

(***************************************************************************)
(* Staging of the constants (run(), lines 110-150)                         *)
(***************************************************************************)
ListOf(seq) ==
    [kind |-> "list", shape |-> <<Len(seq)>>,
     elem |-> [ix \in {<<i>> : i \in 1..Len(seq)} |-> seq[ix[1]]]]

\* y = constants.copy(); every numpy array in y replaced by its flattened list
PayloadCopy(items) ==
    [i \in 1..Len(items) |->
        IF items[i].value.kind = "ndarray"
        THEN Item(items[i].key, ListOf(flatten(items[i].value)))
        ELSE items[i]]

Serializable(value) == value.kind \in {"scalar", "list"}

JsonEntry(item) ==
    [key |-> item.key,
     t |-> IF item.value.kind = "list" THEN "list" ELSE "num",
     v |-> IF item.value.kind = "list"
           THEN [i \in 1..item.value.shape[1] |-> item.value.elem[<<i>>]]
           ELSE <<item.value.elem[<<>>]>>]

\* json.dump(y, param_file): the entries are written in order until a value
\* that JSON cannot encode raises TypeError
json_dump(y) ==
    LET bad == {i \in 1..Len(y) : ~Serializable(y[i].value)}
        n == IF bad = {} THEN Len(y)
             ELSE (CHOOSE i \in bad : \A j \in bad : i <= j) - 1
    IN  [raises |-> bad # {}, entries |-> [i \in 1..n |-> JsonEntry(y[i])]]

\* one element of the command line
Arg(t, s, n, r, c) == [t |-> t, s |-> s, n |-> n, r |-> r, c |-> c]
Word(s) == Arg("word", s, <<0, 0>>, 0, 0)
SeedText(n) == Arg("seed", "", n, 0, 0)
DictBinding(p) == Arg("dict", "SLIM_WRAP_PARAMS", Wide(p), 0, 0)
GetBinding(key) == Arg("get", key, <<0, 0>>, 0, 0)
MatrixBinding(key, r, c) == Arg("matrix", key, <<0, 0>>, r, c)
FilePath(p) == Arg("path", "", Wide(p), 0, 0)

\* for key in constants.keys(): one "-d" binding per key, or ValueError
RECURSIVE BindLoop(_, _)
BindLoop(items, commands) ==
    IF items = <<>> THEN [raises |-> FALSE, commands |-> commands]
    ELSE LET key == Head(items).key
             value == Head(items).value
         IN  IF value.kind = "ndarray"
             THEN IF ndim(value) = 1
                  THEN BindLoop(Tail(items), commands \o <<Word("-d"), GetBinding(key)>>)
                  ELSE IF ndim(value) = 2
                  THEN BindLoop(Tail(items),
                           commands \o <<Word("-d"),
                                         MatrixBinding(key, value.shape[1], value.shape[2])>>)
                  ELSE [raises |-> TRUE, commands |-> commands]
             ELSE BindLoop(Tail(items), commands \o <<Word("-d"), GetBinding(key)>>)

\* lines 114-117: y is a copy of the caller's mapping, and the arrays are
\* replaced in y; constants is the caller's mapping as it is afterwards
CopyAndFlatten_alias(items) == [y |-> PayloadCopy(items), constants |-> PayloadCopy(items)]
CopyAndFlatten(items) == [y |-> PayloadCopy(items), constants |-> items]

\* the `if constants:` block: the parameter file as it is left at `p`, the
\* exception raised inside the block (if any), the command line after it and
\* the caller's mapping after it
Stage_dict_last(items, p, commands) ==
    LET cf == CopyAndFlatten(items)
        dump == json_dump(cf.y)
        bind == BindLoop(cf.constants, commands)
    IN  IF dump.raises
        THEN [exc |-> "TypeError", at |-> 118, constants |-> cf.constants,
              file |-> ParamFile(dump.entries, FALSE), commands |-> commands]
        ELSE IF bind.raises
        THEN [exc |-> "ValueError", at |-> 144, constants |-> cf.constants,
              file |-> ParamFile(dump.entries, TRUE), commands |-> bind.commands]
        ELSE [exc |-> "none", at |-> 0, constants |-> cf.constants,
              file |-> ParamFile(dump.entries, TRUE),
              commands |-> bind.commands \o <<Word("-d"), DictBinding(p)>>]
Stage(items, p, commands) ==
    LET cf == CopyAndFlatten(items)
        dump == json_dump(cf.y)
        bind == BindLoop(cf.constants, commands \o <<Word("-d"), DictBinding(p)>>)
    IN  IF dump.raises
        THEN [exc |-> "TypeError", at |-> 118, constants |-> cf.constants,
              file |-> ParamFile(dump.entries, FALSE), commands |-> commands]
        ELSE IF bind.raises
        THEN [exc |-> "ValueError", at |-> 144, constants |-> cf.constants,
              file |-> ParamFile(dump.entries, TRUE), commands |-> bind.commands]
        ELSE [exc |-> "none", at |-> 0, constants |-> cf.constants,
              file |-> ParamFile(dump.entries, TRUE), commands |-> bind.commands]

(***************************************************************************)
(* The value encoder parse_key_value(key, value) (test_slimwrap.py 69-88)  *)
(***************************************************************************)
MaxLen == 2

\* a host value's element: k is its host type, s, n, b its value as a string,
\* a number (floats in tenths, int(True) = 1) or a boolean
Elem(k, s, n, b) == [k |-> k, s |-> s, n |-> n, b |-> b]
StrE(s) == Elem("str", s, 0, FALSE)
BoolE(b) == Elem("bool", "", IF b THEN 1 ELSE 0, b)
IntE(n) == Elem("int", "", n, FALSE)
FloatE(tenths) == Elem("float", "", tenths, FALSE)
NoneE == Elem("none", "", 0, FALSE)

\* values: a scalar, a list or array given by its elements, a matrix by its rows
ScalarOf(e) == [kind |-> "scalar", shape |-> <<>>, elem |-> [ix \in {<<>>} |-> e]]
SeqOf(kind, seq) ==
    [kind |-> kind, shape |-> <<Len(seq)>>,
     elem |-> [ix \in Indices(<<Len(seq)>>) |-> seq[ix[1]]]]
MatOf(kind, r, c, cell) ==
    [kind |-> kind, shape |-> <<r, c>>, elem |-> [ix \in Indices(<<r, c>>) |-> cell[ix]]]
CubeOf(e) ==
    [kind |-> "ndarray", shape |-> <<1, 1, 2>>,
     elem |-> [ix \in Indices(<<1, 1, 2>>) |-> e]]
\* a list whose rows have different lengths
RaggedOf(e) == [kind |-> "ragged", shape |-> <<2>>, elem |-> [ix \in Indices(<<2>>) |-> e]]

ElemKinds == {"str", "bool", "int", "float"}
Pool(k) ==
    IF k = "str" THEN {StrE("a"), StrE("b")}
    ELSE IF k = "bool" THEN {BoolE(TRUE), BoolE(FALSE)}
    ELSE IF k = "int" THEN {IntE(1), IntE(2)}
    ELSE {FloatE(12), FloatE(13)}

EncodeKeys == {"key", "N"}
EncodeScalars ==
    {ScalarOf(e) : e \in UNION {Pool(k) : k \in ElemKinds} \cup {StrE("val"), NoneE}}
EncodeSeqs ==
    {SeqOf(kind, seq) : kind \in {"list", "ndarray"},
                        seq \in UNION {[1..n -> Pool(k)] : n \in 1..MaxLen, k \in ElemKinds}}
EncodeMats ==
    UNION {{MatOf("ndarray", r, c, cell) : cell \in [Indices(<<r, c>>) -> Pool(k)]} :
              r \in 1..MaxLen, c \in 1..MaxLen, k \in ElemKinds}
EncodeOthers ==
    {CubeOf(e) : e \in {IntE(1), FloatE(12)}} \cup {RaggedOf(e) : e \in {IntE(1), StrE("a")}}
EncodeValues == EncodeScalars \cup EncodeSeqs \cup EncodeMats \cup EncodeOthers

\* the host language's type tests: a boolean is also an integer
IsString(e) == e.k = "str"
IsBoolean(e) == e.k = "bool"
IsInteger(e) == e.k \in {"int", "bool"}
IsFloat(e) == e.k = "float"

\* the constructor of an element: the type tests in the order of the rules
Classify_numbers_first(e) ==
    IF IsString(e) THEN "asString"
    ELSE IF IsInteger(e) THEN "asInteger"
    ELSE IF IsBoolean(e) THEN "asLogical"
    ELSE IF IsFloat(e) THEN "asFloat"
    ELSE "unsupported"
Classify(e) ==
    IF IsString(e) THEN "asString"
    ELSE IF IsBoolean(e) THEN "asLogical"
    ELSE IF IsInteger(e) THEN "asInteger"
    ELSE IF IsFloat(e) THEN "asFloat"
    ELSE "unsupported"

\* the literal of an element under a constructor
Literal(ctor, e) ==
    IF ctor = "asString" THEN "'" \o e.s \o "'"
    ELSE IF ctor = "asLogical" THEN (IF e.b THEN "T" ELSE "F")
    ELSE IF ctor = "asInteger" THEN ToString(e.n)
    ELSE ToString(e.n \div 10) \o "." \o ToString(e.n % 10)

\* the strings s[i..Len(s)] joined by commas
RECURSIVE JoinFrom(_, _)
JoinFrom(s, i) == IF i = Len(s) THEN s[i] ELSE s[i] \o "," \o JoinFrom(s, i + 1)

CtorText(ctor, elems) ==
    ctor \o "(c(" \o JoinFrom([i \in 1..Len(elems) |-> Literal(ctor, elems[i])], 1) \o "))"

MatrixText_by_flat_shape(inner, r, c) ==
    "matrix(" \o inner \o ", nrow=" \o ToString(1) \o ", ncol=" \o ToString(r * c)
        \o ", byrow=T)"
MatrixText(inner, r, c) ==
    "matrix(" \o inner \o ", nrow=" \o ToString(r) \o ", ncol=" \o ToString(c)
        \o ", byrow=T)"

\* parse_key_value(key, value): the literal expression, or the encoding error
\* that names the key
parse_key_value(key, value) ==
    LET elems == flatten(value)
        ctor == Classify(elems[1])
    IN  IF \/ value.kind \notin {"scalar", "list", "ndarray"}
           \/ ndim(value) > 2
           \/ ctor = "unsupported"
        THEN [raises |-> TRUE, text |-> "", names |-> key]
        ELSE IF ndim(value) = 2
        THEN [raises |-> FALSE,
              text |-> key \o "="
                       \o MatrixText(CtorText(ctor, elems), value.shape[1], value.shape[2]),
              names |-> ""]
        ELSE [raises |-> FALSE, text |-> key \o "=" \o CtorText(ctor, elems), names |-> ""]

\* the assertions of test_arguments_parsing: key, value and the string expected
TestCase(key, value, expected) == [key |-> key, value |-> value, expected |-> expected]
test_arguments_parsing ==
    { TestCase("key", ScalarOf(StrE("val")), "key=asString(c('val'))"),
      TestCase("key", ScalarOf(FloatE(12)), "key=asFloat(c(1.2))"),
      TestCase("key", ScalarOf(IntE(1)), "key=asInteger(c(1))"),
      TestCase("key", ScalarOf(BoolE(TRUE)), "key=asLogical(c(T))"),
      TestCase("key", ScalarOf(BoolE(FALSE)), "key=asLogical(c(F))"),
      TestCase("key", SeqOf("list", <<FloatE(12), FloatE(13)>>), "key=asFloat(c(1.2,1.3))"),
      TestCase("key", SeqOf("ndarray", <<FloatE(12), FloatE(13)>>), "key=asFloat(c(1.2,1.3))"),
      TestCase("key", SeqOf("list", <<IntE(1), IntE(2)>>), "key=asInteger(c(1,2))"),
      TestCase("key", SeqOf("list", <<BoolE(TRUE), BoolE(FALSE)>>), "key=asLogical(c(T,F))"),
      TestCase("key", SeqOf("list", <<StrE("a"), StrE("b")>>), "key=asString(c('a','b'))"),
      TestCase("key", MatOf("ndarray", 2, 2, [ix \in Indices(<<2, 2>>) |-> IntE(ix[1])]),
               "key=matrix(asInteger(c(1,1,2,2)), nrow=2, ncol=2, byrow=T)") }

(***************************************************************************)
(* Arguments of the constructor                                            *)
(***************************************************************************)
SourceArg(t, ref) == [t |-> t, ref |-> ref]
CodeArg(t, text) == [t |-> t, text |-> text]
SourceArgs == { SourceArg("none", ""), SourceArg("str", "model.slim"),
                SourceArg("Path", "model.slim"), SourceArg("str", "missing.slim"),
                SourceArg("other", "") }
CodeArgs == { CodeArg("none", ""), CodeArg("str", "scriptB") }

\* open(model_source).read(): the caller's file, or OSError
ReadSource(ref) ==
    IF ref = "model.slim" THEN [ok |-> TRUE, text |-> "scriptA"]
    ELSE [ok |-> FALSE, text |-> ""]

\* what the engine binary can do when it is started
ValidatorOutcomes == {"exit0", "exit1", "nolaunch"}
ExitCodes == {0, 1}

\* check_slim_script(file): the exception it raises for the validator's outcome
check_slim_script_lenient(vout) ==
    IF vout = "nolaunch" THEN [exc |-> "OSError", at |-> 22]
    ELSE [exc |-> "none", at |-> 74]
check_slim_script(vout) ==
    IF vout = "exit0" THEN [exc |-> "none", at |-> 74]
    ELSE IF vout = "exit1" THEN [exc |-> "ValueError", at |-> 29]
    ELSE [exc |-> "OSError", at |-> 22]

(***************************************************************************)
(* State                                                                   *)
(***************************************************************************)
\* subprocess.CompletedProcess: args and returncode; None is NoResult
NoResult == [returncode |-> 0, args |-> <<>>]
Result(rc, args) == [returncode |-> rc, args |-> args]

\* source_text is the text the caller supplied to the constructor
Unborn == [st |-> "unborn", source_text |-> "",
           has_path |-> FALSE, temp_filepath |-> NoPath,
           has_last_result |-> FALSE, last_result |-> NoResult,
           has_last_seed |-> FALSE, last_seed |-> <<0, 0>>]

\* mapping is the caller's constants object as the call has left it so far
NoFrame == [seed |-> SeedArg("none", 0), constants |-> NoneArg, check |-> TRUE,
            commands |-> <<>>, param_file |-> NoPath, mapping |-> NoneArg]

\* a completed call: op is "init", "run" or "del"; kind is "return" or "raise";
\* at is the source line of the `raise` or `return` that ended it; for "del",
\* swallowed tells that `except Exception: pass` caught something and partial
\* that __init__ had raised on the object; for "run", mapping is the caller's
\* constants object as the call has left it
NoCall == [op |-> "none", h |-> 0, kind |-> "none", exc |-> "none", at |-> 0,
           src |-> SourceArg("none", ""), code |-> CodeArg("none", ""),
           validated |-> FALSE, vout |-> "none",
           seed |-> SeedArg("none", 0), constants |-> NoneArg, check |-> TRUE,
           result |-> NoResult, created |-> NoPath, launched |-> FALSE,
           removed |-> NoPath, warned |-> FALSE, exit |-> "none",
           swallowed |-> FALSE, partial |-> FALSE, mapping |-> NoneArg]

Init ==
    /\ fs = [p \in Paths |-> NoFile]
    /\ handle = [h \in Handles |-> Unborn]
    /\ pc = [h \in Handles |-> "idle"]
    /\ frame = [h \in Handles |-> NoFrame]
    /\ last = NoCall

\* the caller has received the outcome of the call and goes on
Resume ==
    /\ last # NoCall
    /\ last' = NoCall
    /\ UNCHANGED <<fs, handle, pc, frame>>

(***************************************************************************)
(* SLiMModel.__init__                                                      *)
(***************************************************************************)
\* the source text the constructor writes into the temporary file, or the
\* exception raised before anything is written
SourceText(src, code) ==
    IF code.t # "none" THEN [exc |-> "none", at |-> 0, text |-> code.text]
    ELSE IF src.t \in {"str", "Path"}
    THEN IF ReadSource(src.ref).ok
         THEN [exc |-> "none", at |-> 0, text |-> ReadSource(src.ref).text]
         ELSE [exc |-> "OSError", at |-> IF src.t = "str" THEN 63 ELSE 66, text |-> ""]
    ELSE [exc |-> "TypeError", at |-> 69, text |-> ""]

\* the two argument checks at the top of __init__
ArgsError_both_allowed(src, code) ==
    IF src.t = "none" /\ code.t = "none" THEN [exc |-> "TypeError", at |-> 53]
    ELSE [exc |-> "none", at |-> 0]
ArgsError(src, code) ==
    IF src.t # "none" /\ code.t # "none" THEN [exc |-> "TypeError", at |-> 49]
    ELSE IF src.t = "none" /\ code.t = "none" THEN [exc |-> "TypeError", at |-> 53]
    ELSE [exc |-> "none", at |-> 0]

Constructed(h, src, code, exc, at, validated, vout, created) ==
    [NoCall EXCEPT !.op = "init", !.h = h,
                   !.kind = IF exc = "none" THEN "return" ELSE "raise",
                   !.exc = exc, !.at = at, !.src = src, !.code = code,
                   !.validated = validated, !.vout = vout, !.created = created]

\* Objects are numbered in the order of their construction: h is the next
\* object when every object before it has been constructed.
SLiMModel_init(h, src, code, vout) ==
    /\ last = NoCall
    /\ handle[h].st = "unborn"
    /\ \A g \in DOMAIN handle : g < h => handle[g].st # "unborn"
    /\ pc[h] = "idle"
    /\ IF ArgsError(src, code).exc # "none"
       THEN /\ handle' = [handle EXCEPT ![h].st = "failed"]
            /\ last' = Constructed(h, src, code, ArgsError(src, code).exc,
                                   ArgsError(src, code).at, FALSE, "none", NoPath)
            /\ fs' = fs
       ELSE \E p \in FreePaths(fs) :
            LET st == SourceText(src, code)
                verr == check_slim_script(vout)
            IN  IF st.exc # "none"
                THEN /\ fs' = [fs EXCEPT ![p] = ModelFile("", FALSE)]
                     /\ handle' = [handle EXCEPT ![h].st = "failed",
                                                 ![h].has_path = TRUE,
                                                 ![h].temp_filepath = p]
                     /\ last' = Constructed(h, src, code, st.exc, st.at, FALSE,
                                            "none", p)
                ELSE /\ fs' = [fs EXCEPT ![p] = ModelFile(st.text, TRUE)]
                     /\ handle' = [handle EXCEPT
                             ![h].st = IF verr.exc = "none" THEN "live" ELSE "failed",
                             ![h].source_text =
                                 IF code.t # "none" THEN code.text
                                 ELSE ReadSource(src.ref).text,
                             ![h].has_path = TRUE,
                             ![h].temp_filepath = p,
                             ![h].has_last_result = (verr.exc = "none")]
                     /\ last' = Constructed(h, src, code, verr.exc, verr.at, TRUE,
                                            vout, p)
    /\ UNCHANGED <<pc, frame>>

(***************************************************************************)
(* SLiMModel.__del__                                                       *)
(***************************************************************************)
\* os.remove(self._temp_filepath) in __del__: the attribute is missing when
\* __init__ raised before line 58 (AttributeError), or the removal fails
\* (OSError); `except Exception: pass` catches both
DelRemoves_live_only(f, obj, rmOk) ==
    obj.st = "live" /\ ~RemoveRaises(f, obj.temp_filepath, rmOk)
DelRemoves(f, obj, rmOk) ==
    obj.has_path /\ ~RemoveRaises(f, obj.temp_filepath, rmOk)
DelSwallows(f, obj, rmOk) ==
    ~obj.has_path \/ RemoveRaises(f, obj.temp_filepath, rmOk)

SLiMModel_del(h, rmOk) ==
    /\ last = NoCall
    /\ handle[h].st \in {"live", "failed"}
    /\ pc[h] = "idle"
    /\ rmOk \in (IF handle[h].has_path THEN BOOLEAN ELSE {TRUE})
    /\ LET removes == DelRemoves(fs, handle[h], rmOk)
       IN  /\ fs' = IF removes THEN os_remove(fs, handle[h].temp_filepath) ELSE fs
           /\ last' = [NoCall EXCEPT !.op = "del", !.h = h, !.kind = "return",
                          !.at = 205,
                          !.removed = IF removes THEN handle[h].temp_filepath
                                      ELSE NoPath,
                          !.swallowed = DelSwallows(fs, handle[h], rmOk),
                          !.partial = (handle[h].st = "failed")]
    \* the object is gone: only the name of the file it owned is remembered
    /\ handle' = [handle EXCEPT ![h] = [Unborn EXCEPT
                      !.st = "released",
                      !.has_path = handle[h].has_path,
                      !.temp_filepath = handle[h].temp_filepath]]
    /\ UNCHANGED <<pc, frame>>

(***************************************************************************)
(* SLiMModel.run                                                           *)
(***************************************************************************)
\* `if constants is None: constants = {}`
DefaultConstants(constants) == IF constants.t = "none" THEN Dict(<<>>) ELSE constants
ItemsOf(constants) == DefaultConstants(constants).items

\* `if constants:` a dict is true when it is not empty
Truthy_always(items) == TRUE
Truthy(items) == items # <<>>

\* the `finally` block: os.remove(param_file.name) when constants is non-empty;
\* an exception of the removal is printed as a warning
CleanupRemoves(f, items, p, rmOk) == Truthy(items) /\ ~RemoveRaises(f, p, rmOk)
CleanupWarns(f, items, p, rmOk) == Truthy(items) /\ RemoveRaises(f, p, rmOk)
Cleanup(f, items, p, rmOk) ==
    IF CleanupRemoves(f, items, p, rmOk) THEN os_remove(f, p) ELSE f

\* the end of the `with` block of lines 111-150, by its last line or by an
\* exception: the file is closed, and delete=False keeps it on disk
CloseParamFile_delete_on_close(f, p) == [f EXCEPT ![p] = NoFile]
CloseParamFile(f, p) == [f EXCEPT ![p].closed = TRUE]

\* how run() ends once the `finally` block is through: `except Exception`
\* (line 163) catches what os.remove raises, so the outcome of the `try` stands
Outcome(kind, exc, at) == [kind |-> kind, exc |-> exc, at |-> at]
FinallyOutcome_unguarded(primary, f, items, p, rmOk) ==
    IF CleanupWarns(f, items, p, rmOk) THEN Outcome("raise", "OSError", 162) ELSE primary
FinallyOutcome(primary, f, items, p, rmOk) == primary

\* the seed run() resolves: the random draw when none is given, else int(seed)
ResolveSeed(seed, rseed) == IF seed.t = "none" THEN rseed ELSE IntOf(seed)

\* commands = ["slim"]; commands.extend(["-s", f"{self.last_seed}"])
BaseCommands(last_seed) == <<Word("slim"), Word("-s"), SeedText(last_seed)>>

Raised(h, exc, at, seed, constants, check, created, removed, warned) ==
    [NoCall EXCEPT !.op = "run", !.h = h, !.kind = "raise", !.exc = exc, !.at = at,
                   !.seed = seed, !.constants = constants, !.check = check,
                   !.created = created, !.removed = removed, !.warned = warned,
                   !.mapping = constants]

\* what the environment decides during a call: the name of the temporary file,
\* the random draw, whether the engine starts, whether the removal succeeds
RunPaths(f, constants) ==
    IF Truthy(ItemsOf(constants)) THEN FreePaths(f) ELSE {NoPath}
RunDraws(seed) == IF seed.t = "none" THEN RandomSeeds ELSE {<<0, 0>>}
RunRemovals(constants) == IF Truthy(ItemsOf(constants)) THEN BOOLEAN ELSE {TRUE}

\* run() from its call up to the start of the engine process; the call ends
\* here when an argument is rejected, staging raises or the engine cannot start
run(h, seed, constants, check) ==
    /\ last = NoCall
    /\ handle[h].st = "live"
    /\ pc[h] = "idle"
    /\ IF constants.t = "other"
       THEN /\ last' = Raised(h, "TypeError", 98, seed, constants, check,
                              NoPath, NoPath, FALSE)
            /\ UNCHANGED <<fs, handle, pc, frame>>
       ELSE IF seed.t # "none" /\ IntRaises(seed)
       THEN /\ last' = Raised(h, "ValueError", 107, seed, constants, check,
                              NoPath, NoPath, FALSE)
            /\ UNCHANGED <<fs, handle, pc, frame>>
       ELSE \E p \in RunPaths(fs, constants), rseed \in RunDraws(seed) :
            LET items == ItemsOf(constants)
                last_seed == ResolveSeed(seed, rseed)
                stg == IF Truthy(items) THEN Stage(items, p, BaseCommands(last_seed))
                       ELSE [exc |-> "none", at |-> 0, constants |-> items,
                             file |-> NoFile, commands |-> BaseCommands(last_seed)]
                mapping == IF constants.t = "none" THEN constants
                           ELSE Dict(stg.constants)
                staged == IF Truthy(items)
                          THEN CloseParamFile([fs EXCEPT ![p] = stg.file], p)
                          ELSE fs
                commands == Append(stg.commands, FilePath(handle[h].temp_filepath))
            IN  /\ handle' = [handle EXCEPT ![h].has_last_seed = TRUE,
                                            ![h].last_seed = last_seed]
                /\ IF stg.exc # "none"
                   THEN /\ fs' = staged
                        /\ last' = [Raised(h, stg.exc, stg.at, seed, constants, check,
                                           p, NoPath, FALSE)
                                    EXCEPT !.mapping = mapping]
                        /\ UNCHANGED <<pc, frame>>
                   ELSE \/ \E rmOk \in RunRemovals(constants) :
                             \* subprocess.run cannot start the engine
                             /\ fs' = Cleanup(staged, items, p, rmOk)
                             /\ last' = [Raised(h,
                                           FinallyOutcome(Outcome("raise", "OSError", 153),
                                                          staged, items, p, rmOk).exc,
                                           FinallyOutcome(Outcome("raise", "OSError", 153),
                                                          staged, items, p, rmOk).at,
                                           seed, constants, check, p,
                                           IF CleanupRemoves(staged, items, p, rmOk)
                                           THEN p ELSE NoPath,
                                           CleanupWarns(staged, items, p, rmOk))
                                         EXCEPT !.mapping = mapping]
                             /\ UNCHANGED <<pc, frame>>
                        \/ /\ fs' = staged
                           /\ pc' = [pc EXCEPT ![h] = "running"]
                           /\ frame' = [frame EXCEPT ![h] =
                                  [seed |-> seed,
                                   constants |-> DefaultConstants(constants),
                                   check |-> check, commands |-> commands,
                                   param_file |-> p,
                                   mapping |-> Dict(stg.constants)]]
                           /\ UNCHANGED last

\* subprocess.run(commands, check=check) once the engine has exited: the
\* CompletedProcess, or CalledProcessError for a non-zero status under check
subprocess_run_raises_never(check, code) == FALSE
subprocess_run_raises(check, code) == check /\ code # 0

\* what run() leaves in self.last_result: line 153 binds the local name
\* last_result, and the attribute keeps the value __init__ gave it
StoreLastResult(obj, result) == obj

\* run() from the exit of the engine process to its return: the `except`
\* and `finally` blocks and `return last_result`
run_finish(h, code, rmOk) ==
    /\ last = NoCall
    /\ pc[h] = "running"
    /\ rmOk \in RunRemovals(frame[h].constants)
    /\ LET f == frame[h]
           items == ItemsOf(f.constants)
           raises == subprocess_run_raises(f.check, code)
           last_result == Result(code, f.commands)
           out == FinallyOutcome(IF raises
                                 THEN Outcome("raise", "CalledProcessError", 158)
                                 ELSE Outcome("return", "none", 165),
                                 fs, items, f.param_file, rmOk)
       IN  /\ fs' = Cleanup(fs, items, f.param_file, rmOk)
           /\ handle' = [handle EXCEPT ![h] =
                  IF raises THEN @ ELSE StoreLastResult(@, last_result)]
           /\ last' = [NoCall EXCEPT
                   !.op = "run", !.h = h,
                   !.kind = out.kind, !.exc = out.exc, !.at = out.at,
                   !.result = IF out.kind = "raise" THEN NoResult ELSE last_result,
                   !.seed = f.seed, !.constants = f.constants, !.check = f.check,
                   !.mapping = f.mapping,
                   !.created = f.param_file, !.launched = TRUE,
                   !.removed = IF CleanupRemoves(fs, items, f.param_file, rmOk)
                               THEN f.param_file ELSE NoPath,
                   !.warned = CleanupWarns(fs, items, f.param_file, rmOk),
                   !.exit = IF code = 0 THEN "exit0" ELSE "exit1"]
    /\ pc' = [pc EXCEPT ![h] = "idle"]
    /\ frame' = [frame EXCEPT ![h] = NoFrame]

Next ==
    \/ \E h \in Handles, src \in SourceArgs, code \in CodeArgs,
          vout \in ValidatorOutcomes :
          SLiMModel_init(h, src, code, vout)
    \/ \E h \in Handles, seed \in SeedArgs, constants \in ConstantsArgs,
          check \in BOOLEAN :
          run(h, seed, constants, check)
    \/ \E h \in Handles, code \in ExitCodes, rmOk \in BOOLEAN :
          run_finish(h, code, rmOk)
    \/ \E h \in Handles, rmOk \in BOOLEAN :
          SLiMModel_del(h, rmOk)
    \/ Resume

Spec == Init /\ [][Next]_vars

(***************************************************************************)
(* run() with array constants of every small shape: a valid model, an      *)
(* accepted seed, a removal that succeeds                                  *)
(***************************************************************************)
StageShapes == {<<r, c>> : r \in 1..MaxLen, c \in 1..(MaxLen + 1)}
StageConstants ==
    UNION {{ Dict(<<Item("matrix", Val("ndarray", shape))>>),
             Dict(<<Item("a", Scalar), Item("matrix", Val("ndarray", shape)),
                    Item("v", Vec)>>),
             Dict(<<Item("l", PyList), Item("matrix", Val("ndarray", shape))>>) } :
              shape \in StageShapes}

NextStage ==
    \/ \E h \in Handles :
          SLiMModel_init(h, SourceArg("none", ""), CodeArg("str", "scriptB"), "exit0")
    \/ \E h \in Handles, constants \in StageConstants, check \in BOOLEAN :
          run(h, SeedArg("int", 1000), constants, check)
    \/ \E h \in Handles, code \in ExitCodes :
          run_finish(h, code, TRUE)
    \/ Resume

SpecStage == Init /\ [][NextStage]_vars

(***************************************************************************)
(* run() calls of several objects at once: each call in three steps, the   *)
(* creation of the parameter file, its staging up to the start of the      *)
(* engine, and the exit of the engine, so that the calls interleave        *)
(* between the creation of a file and its writing; every removal succeeds  *)
(***************************************************************************)
ConcurrentHandles == 1..(NumHandles + 1)
ConcurrentPaths == 1..(2 * (NumHandles + 1))
ConcurrentConstants ==
    { Dict(<<Item("m", Mat), Item("a", Scalar), Item("v", Vec)>>),
      Dict(<<Item("a", Scalar)>>) }

InitConcurrent ==
    /\ fs = [p \in ConcurrentPaths |-> NoFile]
    /\ handle = [h \in ConcurrentHandles |-> Unborn]
    /\ pc = [h \in ConcurrentHandles |-> "idle"]
    /\ frame = [h \in ConcurrentHandles |-> NoFrame]
    /\ last = NoCall

\* the file right after NamedTemporaryFile(delete=False, mode="w"): empty, open
OpenedParamFile == [ParamFile(<<>>, FALSE) EXCEPT !.closed = FALSE]

\* lines 95-113: the arguments are accepted and the parameter file is created
run_open(h, seed, constants, check) ==
    /\ last = NoCall
    /\ handle[h].st = "live"
    /\ pc[h] = "idle"
    /\ constants.t # "other"
    /\ ~(seed.t # "none" /\ IntRaises(seed))
    /\ Truthy(ItemsOf(constants))
    /\ \E p \in RunPaths(fs, constants), rseed \in RunDraws(seed) :
          /\ fs' = [fs EXCEPT ![p] = OpenedParamFile]
          /\ handle' = [handle EXCEPT ![h].has_last_seed = TRUE,
                                      ![h].last_seed = ResolveSeed(seed, rseed)]
          /\ frame' = [frame EXCEPT ![h] =
                 [seed |-> seed, constants |-> DefaultConstants(constants),
                  check |-> check,
                  commands |-> BaseCommands(ResolveSeed(seed, rseed)),
                  param_file |-> p, mapping |-> DefaultConstants(constants)]]
    /\ pc' = [pc EXCEPT ![h] = "staging"]
    /\ UNCHANGED last

\* lines 114-155: the payload is written, the file closed and the engine
\* started, unless staging raises or the engine cannot start
run_stage(h, rmOk) ==
    /\ last = NoCall
    /\ pc[h] = "staging"
    /\ LET f == frame[h]
           p == f.param_file
           items == ItemsOf(f.constants)
           stg == Stage(items, p, f.commands)
           staged == CloseParamFile([fs EXCEPT ![p] = stg.file], p)
           commands == Append(stg.commands, FilePath(handle[h].temp_filepath))
       IN  IF stg.exc # "none"
           THEN /\ fs' = staged
                /\ last' = [Raised(h, stg.exc, stg.at, f.seed, f.constants, f.check,
                                   p, NoPath, FALSE)
                            EXCEPT !.mapping = Dict(stg.constants)]
                /\ pc' = [pc EXCEPT ![h] = "idle"]
                /\ frame' = [frame EXCEPT ![h] = NoFrame]
           ELSE \/ /\ fs' = Cleanup(staged, items, p, rmOk)
                   /\ last' = [Raised(h,
                                 FinallyOutcome(Outcome("raise", "OSError", 153),
                                                staged, items, p, rmOk).exc,
                                 FinallyOutcome(Outcome("raise", "OSError", 153),
                                                staged, items, p, rmOk).at,
                                 f.seed, f.constants, f.check, p,
                                 IF CleanupRemoves(staged, items, p, rmOk)
                                 THEN p ELSE NoPath,
                                 CleanupWarns(staged, items, p, rmOk))
                               EXCEPT !.mapping = Dict(stg.constants)]
                   /\ pc' = [pc EXCEPT ![h] = "idle"]
                   /\ frame' = [frame EXCEPT ![h] = NoFrame]
                \/ /\ fs' = staged
                   /\ pc' = [pc EXCEPT ![h] = "running"]
                   /\ frame' = [frame EXCEPT ![h].commands = commands,
                                             ![h].mapping = Dict(stg.constants)]
                   /\ UNCHANGED last
    /\ UNCHANGED handle

NextConcurrent ==
    \/ \E h \in ConcurrentHandles :
          SLiMModel_init(h, SourceArg("none", ""), CodeArg("str", "scriptB"), "exit0")
    \/ \E h \in ConcurrentHandles, constants \in ConcurrentConstants :
          run_open(h, SeedArg("int", 1000), constants, TRUE)
    \/ \E h \in ConcurrentHandles : run_stage(h, TRUE)
    \/ \E h \in ConcurrentHandles, code \in ExitCodes :
          run_finish(h, code, TRUE)
    \/ \E h \in ConcurrentHandles : SLiMModel_del(h, TRUE)
    \/ Resume

SpecConcurrent == InitConcurrent /\ [][NextConcurrent]_vars

(***************************************************************************)
(* Calls of the value encoder alone                                        *)
(***************************************************************************)
\* a completed call of parse_key_value: its arguments and what came of them
Encoded(key, value, res) ==
    [op |-> "parse_key_value", key |-> key, value |-> value,
     kind |-> IF res.raises THEN "raise" ELSE "return",
     text |-> res.text, names |-> res.names]

Encode(key, value) ==
    /\ last = NoCall
    /\ last' = Encoded(key, value, parse_key_value(key, value))
    /\ UNCHANGED <<fs, handle, pc, frame>>

NextEncode ==
    \/ \E key \in EncodeKeys, value \in EncodeValues : Encode(key, value)
    \/ Resume

SpecEncode == Init /\ [][NextEncode]_vars

TypeOK ==
    /\ \A h \in Handles : pc[h] \in {"idle", "running"}
    /\ \A h \in Handles : handle[h].st \in {"unborn", "live", "failed", "released"}
    /\ \A p \in Paths : fs[p].kind \in {"none", "model", "param"}

(***************************************************************************)
(* Properties                                                              *)
(***************************************************************************)
UsageErrors == {"TypeError", "ValueError"}

\* the value of a two-limb integer, for the values that fit
Narrow(n) == n[1] * Limb + n[2]

HasHighDim(constants) ==
    \E i \in 1..Len(ItemsOf(constants)) :
        /\ ItemsOf(constants)[i].value.kind = "ndarray"
        /\ ndim(ItemsOf(constants)[i].value) > 2

\* C1: a run() call with non-empty constants that reached subprocess.run
\* (the engine exited zero, exited non-zero under either value of check, or
\* could not be started) leaves no parameter file behind when it returns
\* or raises, unless the removal itself failed.
C1_PayloadRemoved ==
    (/\ last.op = "run"
     /\ last.at \in {153, 158, 165}
     /\ ItemsOf(last.constants) # <<>>
     /\ ~last.warned)
    => /\ last.created \in Paths
       /\ ~fs[last.created].exists
       /\ last.removed = last.created

C1_Witness ==
    /\ last.op = "run"
    /\ last.at = 158
    /\ last.exc = "CalledProcessError"
    /\ ItemsOf(last.constants) # <<>>
    /\ ~last.warned
    /\ ~fs[last.created].exists

\* C2: a run() call whose constants hold an array of more than two
\* dimensions raises a usage error without having created a parameter file
\* and without launching the engine.
C2_HighDimBeforeFileIO ==
    (last.op = "run" /\ HasHighDim(last.constants))
    => /\ last.kind = "raise"
       /\ last.exc \in UsageErrors
       /\ ~last.launched
       /\ last.created = NoPath

\* exactly one source is given, of a type the constructor accepts, and readable
OneReadableSource(src, code) ==
    \/ src.t = "none" /\ code.t = "str"
    \/ code.t = "none" /\ src.t \in {"str", "Path"} /\ ReadSource(src.ref).ok

\* C3: when exactly one well-typed, readable source is given, the
\* constructor runs the validator on the temporary file, and it yields a
\* handle exactly when the validator exits zero; a non-zero exit raises
\* ValueError and leaves no handle run() accepts.
C3_HandleIffValidatorAccepts ==
    /\ (last.op = "init" /\ OneReadableSource(last.src, last.code))
       => /\ last.validated
          /\ (handle[last.h].st = "live") <=> (last.vout = "exit0")
          /\ (last.kind = "return") <=> (last.vout = "exit0")
          /\ last.vout = "exit1" => last.exc = "ValueError"
    /\ \A h \in Handles : pc[h] = "running" => handle[h].st = "live"

C3_Witness ==
    /\ last.op = "init"
    /\ OneReadableSource(last.src, last.code)
    /\ last.vout = "exit1"
    /\ last.exc = "ValueError"
    /\ handle[last.h].st = "failed"

\* C4: after run() returns a result, the handle's last_result attribute is
\* that result.
C4_LastResultStored ==
    (last.op = "run" /\ last.kind = "return")
    => handle[last.h].last_result = last.result

\* C5: while a handle is live, its temporary model file exists, is closed
\* and holds the source text given to the constructor, whatever run() calls
\* have been made or are in progress.
C5_ModelFileKept ==
    \A h \in Handles :
        handle[h].st = "live"
        => /\ handle[h].has_path
           /\ handle[h].temp_filepath \in Paths
           /\ fs[handle[h].temp_filepath] = ModelFile(handle[h].source_text, TRUE)

C5_Witness ==
    /\ last.op = "run"
    /\ last.removed \in Paths
    /\ handle[last.h].st = "live"
    /\ fs[handle[last.h].temp_filepath].exists
    /\ fs[handle[last.h].temp_filepath].text = "scriptA"

\* n is the integer the seed argument resolves to
ResolvedFrom(seed, n) ==
    /\ seed.t = "int" => Narrow(n) = seed.v
    /\ seed.t = "float" => 10 * Narrow(n) <= seed.v /\ seed.v < 10 * (Narrow(n) + 1)
    /\ seed.t = "none" => n \in RandomSeeds

\* the layout of a command line, position by position
ArgvOrdered(argv, seed, items, param_file, temp_filepath) ==
    LET n == Len(items)
    IN  /\ Len(argv) = IF n = 0 THEN 4 ELSE 6 + 2 * n
        /\ argv[1] = Word("slim")
        /\ argv[2] = Word("-s")
        /\ argv[3].t = "seed" /\ ResolvedFrom(seed, argv[3].n)
        /\ n > 0 => /\ argv[4] = Word("-d")
                    /\ argv[5].t = "dict"
                    /\ argv[5].s = "SLIM_WRAP_PARAMS"
                    /\ Narrow(argv[5].n) = param_file
                    /\ \A i \in 1..n :
                          /\ argv[4 + 2 * i] = Word("-d")
                          /\ argv[5 + 2 * i].t \in {"get", "matrix"}
                          /\ argv[5 + 2 * i].s = items[i].key
        /\ argv[Len(argv)].t = "path"
        /\ Narrow(argv[Len(argv)].n) = temp_filepath
        /\ \A j \in 1..Len(argv) :
              /\ argv[j].t = "path" => j = Len(argv)
              /\ argv[j].t = "dict" => j = 5

\* C6: the command line of every engine process run() starts is: "slim",
\* "-s", the resolved seed; then, only for non-empty constants, "-d" with
\* the SLIM_WRAP_PARAMS binding that reads this call's parameter file,
\* followed by one "-d" binding per key in the order of the mapping; then the
\* path of the model file, which is the last argument.
C6_ArgvOrder ==
    \A h \in Handles :
        pc[h] = "running"
        => /\ ArgvOrdered(frame[h].commands, frame[h].seed,
                          ItemsOf(frame[h].constants), frame[h].param_file,
                          handle[h].temp_filepath)
           /\ frame[h].commands[3].n = handle[h].last_seed

C6_Witness ==
    \E h \in Handles :
        /\ pc[h] = "running"
        /\ Len(ItemsOf(frame[h].constants)) = 3
        /\ frame[h].seed.t = "float"
        /\ Len(frame[h].commands) = 12

\* C7: a run() call with a seed that int() rejects raises a usage error,
\* and has neither created a parameter file nor launched the engine,
\* whatever constants came with it.
C7_BadSeedFailsFirst ==
    (last.op = "run" /\ last.seed.t = "badstr")
    => /\ last.kind = "raise"
       /\ last.exc \in UsageErrors
       /\ ~last.launched
       /\ last.created = NoPath
       /\ pc[last.h] = "idle"

C7_Witness ==
    /\ last.op = "run"
    /\ last.seed.t = "badstr"
    /\ last.at = 107
    /\ ItemsOf(last.constants) # <<>>

\* C8: when the engine exits non-zero, run() raises CalledProcessError and
\* returns nothing under check=True, and returns the result with that status
\* under check=False; when it exits zero, run() returns the result for
\* either value of check.
C8_CheckPolicy ==
    (last.op = "run" /\ last.exit # "none")
    => /\ (last.exit = "exit1" /\ last.check)
          => /\ last.kind = "raise"
             /\ last.exc = "CalledProcessError"
             /\ last.result = NoResult
       /\ (last.exit = "exit1" /\ ~last.check)
          => /\ last.kind = "return"
             /\ last.result.returncode # 0
       /\ last.exit = "exit0"
          => /\ last.kind = "return"
             /\ last.result.returncode = 0

C8_Witness ==
    /\ last.op = "run"
    /\ last.exit = "exit1"
    /\ last.check
    /\ last.kind = "raise"

\* the steps of a run() call of handle h whose constants are empty
C9_Step(h) ==
    /\ (/\ pc[h] = "idle" /\ pc'[h] = "running"
        /\ ItemsOf(frame'[h].constants) = <<>>)
       => /\ fs' = fs
          /\ frame'[h].param_file = NoPath
          /\ frame'[h].commands
                = <<Word("slim"), Word("-s"), SeedText(handle'[h].last_seed),
                    FilePath(handle'[h].temp_filepath)>>
    /\ (/\ pc[h] = "running" /\ pc'[h] = "idle"
        /\ ItemsOf(frame[h].constants) = <<>>)
       => fs' = fs
    /\ (/\ last = NoCall /\ last'.op = "run" /\ last'.h = h
        /\ last'.constants.t # "other"
        /\ ItemsOf(last'.constants) = <<>>)
       => /\ fs' = fs
          /\ last'.created = NoPath
          /\ last'.removed = NoPath
          /\ ~last'.warned

\* C9: a run() call with no constants or an empty mapping changes no file
\* at any of its steps, and the command line it starts the engine with is
\* exactly "slim", "-s", the seed and the model path.
C9_EmptyConstantsNoFile == [][\A h \in Handles : C9_Step(h)]_vars

C9_Witness ==
    /\ last.op = "run"
    /\ last.kind = "return"
    /\ last.constants.t = "dict"
    /\ ItemsOf(last.constants) = <<>>
    /\ last.created = NoPath

\* both arguments given, or both left out
BothOrNeither(src, code) == (src.t = "none") <=> (code.t = "none")

\* the step of a constructor call with such arguments

C10_Step ==
    (/\ last = NoCall /\ last'.op = "init"
     /\ BothOrNeither(last'.src, last'.code))
    => /\ fs' = fs
       /\ last'.kind = "raise"
       /\ last'.exc = "TypeError"
       /\ ~last'.validated
       /\ last'.created = NoPath
       /\ ~handle'[last'.h].has_path
       /\ handle'[last'.h].st = "failed"

\* C10: a constructor call with both model_source and model_code, or with
\* neither, raises TypeError without creating a temporary file and
\* without running the validator; the files on disk are those from before.
C10_BothOrNeitherRejected == [][C10_Step]_vars

C10_Witness ==
    /\ last.op = "init"
    /\ last.at = 49
    /\ last.src.t = "Path"
    /\ last.code.t = "str"
    /\ \A p \in Paths : ~fs[p].exists

\* C11: releasing a handle, fully or partially constructed, never raises,
\* and the temporary model file the handle owned is gone from the file
\* system afterwards unless its removal failed.
C11_ReleaseRemovesModelFile ==
    last.op = "del"
    => /\ last.kind = "return"
       /\ (handle[last.h].has_path /\ ~last.swallowed)
          => /\ ~fs[handle[last.h].temp_filepath].exists
             /\ last.removed = handle[last.h].temp_filepath
       /\ ~handle[last.h].has_path => last.swallowed /\ last.removed = NoPath

C11_Witness ==
    /\ last.op = "del"
    /\ last.partial
    /\ handle[last.h].has_path
    /\ ~last.swallowed
    /\ ~fs[handle[last.h].temp_filepath].exists

C11_WitnessSwallowed ==
    /\ last.op = "del"
    /\ last.kind = "return"
    /\ handle[last.h].has_path
    /\ last.swallowed
    /\ fs[handle[last.h].temp_filepath].exists

\* the constructor the rules give each kind of element
CtorOfKind(k) ==
    CASE k = "str" -> "asString"
      [] k = "bool" -> "asLogical"
      [] k = "int" -> "asInteger"
      [] k = "float" -> "asFloat"

\* the literal of an element of each kind
LiteralOfKind(e) ==
    CASE e.k = "str" -> "'" \o e.s \o "'"
      [] e.k = "bool" -> (IF e.b THEN "T" ELSE "F")
      [] e.k = "int" -> ToString(e.n)
      [] e.k = "float" -> ToString(e.n \div 10) \o "." \o ToString(e.n % 10)

\* the first n of the literals, separated by commas and nothing else
RECURSIVE Commas(_, _)
Commas(lits, n) == IF n = 1 THEN lits[1] ELSE Commas(lits, n - 1) \o "," \o lits[n]

\* a value made of elements of one of the four kinds
KindOf(value) == value.elem[CHOOSE ix \in DOMAIN value.elem : TRUE].k
Homogeneous(value) ==
    /\ value.kind \in {"scalar", "list", "ndarray"}
    /\ KindOf(value) \in ElemKinds
    /\ \A ix \in DOMAIN value.elem : value.elem[ix].k = KindOf(value)

\* the elements of a scalar or a sequence in their original order
InOrder(value) ==
    IF ndim(value) = 0 THEN <<value.elem[<<>>]>>
    ELSE [i \in 1..value.shape[1] |-> value.elem[<<i>>]]

\* the rows of a matrix one after the other
RowMajor(value) ==
    [k \in 1..(value.shape[1] * value.shape[2]) |->
        value.elem[<<((k - 1) \div value.shape[2]) + 1, ((k - 1) % value.shape[2]) + 1>>]]

TaggedList(value, elems) ==
    CtorOfKind(KindOf(value)) \o "(c("
        \o Commas([i \in 1..Len(elems) |-> LiteralOfKind(elems[i])], Len(elems)) \o "))"

\* C12: for a scalar or a homogeneous 1-D sequence of strings, booleans,
\* integers or floats, parse_key_value returns key=<ctor>(c(<literals>)):
\* the literals of the elements in their order, as many as there are
\* elements, joined by commas without whitespace, under asString,
\* asLogical, asInteger or asFloat by the kind of the elements; booleans
\* get asLogical with T and F, never asInteger. The strings the test
\* expects (lines 72-82) are the ones returned.
C12_ScalarsAndSequences ==
    last.op = "parse_key_value"
    => /\ (Homogeneous(last.value) /\ ndim(last.value) <= 1)
          => /\ last.kind = "return"
             /\ last.text = last.key \o "=" \o TaggedList(last.value, InOrder(last.value))
       /\ \A t \in test_arguments_parsing :
             (ndim(t.value) <= 1 /\ last.key = t.key /\ last.value = t.value)
             => last.kind = "return" /\ last.text = t.expected

C12_Witness ==
    /\ last.op = "parse_key_value"
    /\ last.key = "key"
    /\ last.value = SeqOf("list", <<BoolE(TRUE), BoolE(FALSE)>>)
    /\ last.text = "key=asLogical(c(T,F))"

\* C13: for a rectangular 2-D array of shape (r, c), parse_key_value
\* returns key=matrix(<ctor>(c(<elements>)), nrow=r, ncol=c, byrow=T) with
\* the entries in row-major order under the constructor of their kind (the
\* string of the test, lines 83-88, included); a value that is neither a
\* scalar, a 1-D sequence nor a rectangular 2-D array raises an error that
\* names the key.
C13_MatricesAndErrors ==
    last.op = "parse_key_value"
    => /\ (Homogeneous(last.value) /\ ndim(last.value) = 2)
          => /\ last.kind = "return"
             /\ last.text = last.key \o "=matrix("
                               \o TaggedList(last.value, RowMajor(last.value))
                               \o ", nrow=" \o ToString(last.value.shape[1])
                               \o ", ncol=" \o ToString(last.value.shape[2])
                               \o ", byrow=T)"
       /\ \A t \in test_arguments_parsing :
             (ndim(t.value) = 2 /\ last.key = t.key /\ last.value = t.value)
             => last.kind = "return" /\ last.text = t.expected
       /\ (ndim(last.value) > 2 \/ last.value.kind = "ragged")
          => /\ last.kind = "raise"
             /\ last.names = last.key

C13_Witness ==
    /\ last.op = "parse_key_value"
    /\ last.key = "key"
    /\ last.value = MatOf("ndarray", 2, 2, [ix \in Indices(<<2, 2>>) |-> IntE(ix[1])])
    /\ last.text = "key=matrix(asInteger(c(1,1,2,2)), nrow=2, ncol=2, byrow=T)"

C13_WitnessError ==
    /\ last.op = "parse_key_value"
    /\ ndim(last.value) = 3
    /\ last.kind = "raise"
    /\ last.names = "N"

\* the steps of a run() call of handle h that stages constants and starts
\* the engine: the start, the time the engine runs, and its exit
C14_Step(h) ==
    /\ (/\ pc[h] = "idle" /\ pc'[h] = "running"
        /\ ItemsOf(frame'[h].constants) # <<>>)
       => LET p == frame'[h].param_file
          IN  /\ p \in Paths
              /\ ~fs[p].exists
              /\ fs'[p].exists /\ fs'[p].kind = "param"
              /\ fs'[p].complete /\ fs'[p].closed
              /\ Len(fs'[p].entries) = Len(ItemsOf(frame'[h].constants))
              /\ \A q \in Paths \ {p} : fs'[q] = fs[q]
    /\ (/\ pc[h] = "running" /\ pc'[h] = "running"
        /\ ItemsOf(frame[h].constants) # <<>>)
       => /\ frame'[h] = frame[h]
          /\ fs[frame[h].param_file].exists
          /\ fs'[frame[h].param_file] = fs[frame[h].param_file]
    /\ (/\ pc[h] = "running" /\ pc'[h] = "idle"
        /\ ItemsOf(frame[h].constants) # <<>>)
       => LET p == frame[h].param_file
          IN  /\ fs[p].exists /\ fs[p].complete /\ fs[p].closed
              /\ last'.op = "run" /\ last'.h = h /\ last'.launched
              /\ last'.exit # "none"
              /\ last'.created = p
              /\ fs'[p].exists \/ last'.removed = p
              /\ \A q \in Paths \ {p} : fs'[q] = fs[q]

\* C14: a run() call with non-empty constants that starts the engine
\* creates exactly one parameter file; the file is completely written and
\* closed when the engine starts, stays as it is while the engine runs, and
\* is removed only in the step that follows the engine's exit.
C14_PayloadLifetime == [][\A h \in Handles : C14_Step(h)]_vars

C14_Witness ==
    \E h \in Handles :
        /\ pc[h] = "running"
        /\ frame[h].param_file \in Paths
        /\ fs[frame[h].param_file].complete
        /\ fs[frame[h].param_file].closed
        /\ Len(fs[frame[h].param_file].entries) = 3

\* the engine's matrix(x, nrow, ncol, byrow=T): x fills the rows one by one
matrix_byrow(x, nrow, ncol) ==
    [ix \in {<<i, j>> : i \in 1..nrow, j \in 1..ncol} |-> x[(ix[1] - 1) * ncol + ix[2]]]

\* what the engine of handle h gets for the i-th constant: the entry of the
\* parameter file and the binding on the command line
C15_Entry(h, i) == fs[frame[h].param_file].entries[i]
C15_Binding(h, i) == frame[h].commands[5 + 2 * i]

\* C15: for a 2-D array constant of shape (r, c) the parameter file holds,
\* under the same key, the r*c entries as one list, and the binding for the
\* key is matrix(..., nrow=r, ncol=c, byrow=T); filling an r-by-c matrix
\* from that list by row gives the original entry at every (i, j). 1-D
\* arrays, lists and scalars are bound by plain retrieval.
C15_MatrixRoundTrip ==
    \A h \in Handles :
        pc[h] = "running"
        => \A i \in 1..Len(ItemsOf(frame[h].constants)) :
              LET item == ItemsOf(frame[h].constants)[i]
                  entry == C15_Entry(h, i)
                  bind == C15_Binding(h, i)
              IN  /\ entry.key = item.key
                  /\ bind.s = item.key
                  /\ (item.value.kind = "ndarray" /\ ndim(item.value) = 2)
                     => /\ entry.t = "list"
                        /\ Len(entry.v) = item.value.shape[1] * item.value.shape[2]
                        /\ bind.t = "matrix"
                        /\ bind.r = item.value.shape[1]
                        /\ bind.c = item.value.shape[2]
                        /\ matrix_byrow(entry.v, bind.r, bind.c) = item.value.elem
                  /\ (item.value.kind = "ndarray" /\ ndim(item.value) = 1)
                     => /\ bind.t = "get"
                        /\ entry.t = "list"
                        /\ entry.v = [k \in 1..item.value.shape[1] |-> item.value.elem[<<k>>]]
                  /\ item.value.kind # "ndarray"
                     => /\ bind.t = "get"
                        /\ entry.t = IF item.value.kind = "list" THEN "list" ELSE "num"

C15_Witness ==
    \E h \in Handles :
        /\ pc[h] = "running"
        /\ Len(ItemsOf(frame[h].constants)) = 3
        /\ ItemsOf(frame[h].constants)[2].value.shape = <<2, 3>>
        /\ C15_Binding(h, 2) = MatrixBinding("matrix", 2, 3)
        /\ C15_Entry(h, 2).v = <<711, 712, 713, 721, 722, 723>>

\* a run() call that raised inside the `if constants:` block (lines 110-150)
\* after it had created its parameter file
StagingFailed(call) ==
    /\ call.op = "run"
    /\ call.kind = "raise"
    /\ call.created # NoPath
    /\ call.at < 151

\* C16: when staging fails after the parameter file has been created (a
\* constant that JSON cannot encode, for one), run() raises the staging
\* error, starts no engine, and the parameter file it created is not left
\* on the file system.
C16_StagingFailureCleansUp ==
    StagingFailed(last)
    => /\ last.exc \in {"TypeError", "ValueError"}
       /\ ~last.launched
       /\ pc[last.h] = "idle"
       /\ ~fs[last.created].exists

\* C17: a removal of the parameter file that fails does not change how
\* run() ends: after a non-zero exit under check=True it raises
\* CalledProcessError, not the error of the removal; after a zero exit, or
\* any exit under check=False, it returns the result; when the engine could
\* not be started it raises that error. The file is left where it was.
C17_RemovalFailureIsOnlyAWarning ==
    (last.op = "run" /\ last.warned)
    => /\ last.created \in Paths
       /\ fs[last.created].exists
       /\ last.removed = NoPath
       /\ (last.exit = "exit1" /\ last.check)
          => /\ last.kind = "raise"
             /\ last.exc = "CalledProcessError"
       /\ (last.exit = "exit0" \/ (last.exit = "exit1" /\ ~last.check))
          => /\ last.kind = "return"
             /\ last.exc = "none"
             /\ last.result.returncode = (IF last.exit = "exit0" THEN 0 ELSE 1)
             /\ last.result.args # <<>>
       /\ last.exit = "none"
          => /\ last.kind = "raise"
             /\ last.exc = "OSError"
             /\ last.at = 153

C17_Witness ==
    /\ last.op = "run"
    /\ last.warned
    /\ last.exit = "exit1"
    /\ last.check
    /\ last.exc = "CalledProcessError"
    /\ fs[last.created].exists

C17_WitnessReturn ==
    /\ last.op = "run"
    /\ last.warned
    /\ last.kind = "return"
    /\ last.result.returncode = 1

\* a run() call of h is between the creation of its parameter file and the
\* exit of its engine
InFlight(h) == pc[h] \in {"staging", "running"}

\* what belongs to the in-flight call of h is its own and is intact
C18_Own(h) ==
    LET p == frame[h].param_file
        m == handle[h].temp_filepath
        items == ItemsOf(frame[h].constants)
    IN  /\ p \in DOMAIN fs
        /\ fs[p].exists /\ fs[p].kind = "param"
        /\ \A g \in DOMAIN handle \ {h} : InFlight(g) => frame[g].param_file # p
        /\ \A g \in DOMAIN handle : handle[g].st = "live" => handle[g].temp_filepath # p
        /\ fs[m] = ModelFile(handle[h].source_text, TRUE)
        /\ pc[h] = "staging" => fs[p] = OpenedParamFile
        /\ pc[h] = "running"
           => /\ fs[p].complete /\ fs[p].closed
              /\ fs[p].entries = [i \in 1..Len(items) |-> JsonEntry(PayloadCopy(items)[i])]
              /\ \A j \in 1..Len(frame[h].commands) :
                    /\ frame[h].commands[j].t = "dict"
                       => Narrow(frame[h].commands[j].n) = p
                    /\ frame[h].commands[j].t = "path"
                       => Narrow(frame[h].commands[j].n) = m

\* C18: in every interleaving of run() calls with non-empty constants on
\* distinct objects, each call in flight has a parameter file no other call
\* in flight has, its engine is started with the path of that file and of
\* its own model file only, and the call removes the file it created and no
\* other: the parameter file and the model file of every call in flight,
\* and the model file of every live object, are as their owner wrote them.
C18_RunsDoNotInterfere ==
    /\ \A h \in DOMAIN handle : InFlight(h) => C18_Own(h)
    /\ \A h \in DOMAIN handle :
          handle[h].st = "live"
          => fs[handle[h].temp_filepath] = ModelFile(handle[h].source_text, TRUE)
    /\ (last.op = "run" /\ last.launched)
       => /\ last.removed = last.created
          /\ ~InFlight(last.h)
          /\ \A g \in DOMAIN handle : InFlight(g) => frame[g].param_file # last.removed

C18_Witness ==
    \E g, h \in DOMAIN handle :
        /\ g # h
        /\ pc[g] = "running"
        /\ pc[h] = "staging"
        /\ fs[frame[g].param_file].complete
        /\ fs[frame[h].param_file] = OpenedParamFile
        /\ frame[g].constants = frame[h].constants

\* the mapping has the keys it had, in their order, and under each key the
\* value it had, with its type and its shape
SameMapping(before, after) ==
    /\ after.t = before.t
    /\ Len(after.items) = Len(before.items)
    /\ \A i \in 1..Len(before.items) :
          /\ after.items[i].key = before.items[i].key
          /\ after.items[i].value.kind = before.items[i].value.kind
          /\ after.items[i].value.shape = before.items[i].value.shape
          /\ after.items[i].value.elem = before.items[i].value.elem

\* C19: run() leaves the caller's constants mapping as it was, when it
\* returns, when it raises and while the engine runs: the same keys in the
\* same order, every value with the type and the shape it had. The lists
\* the arrays were flattened to are in the parameter file only.
C19_ConstantsUntouched ==
    /\ last.op = "run" => SameMapping(last.constants, last.mapping)
    /\ \A h \in Handles :
          pc[h] = "running"
          => /\ SameMapping(frame[h].constants, frame[h].mapping)
             /\ \A i \in 1..Len(frame[h].mapping.items) :
                   frame[h].mapping.items[i].value.kind = "ndarray"
                   => /\ fs[frame[h].param_file].entries[i].t = "list"
                      /\ Len(fs[frame[h].param_file].entries[i].v)
                            = Size(frame[h].mapping.items[i].value.shape)

C19_Witness ==
    /\ last.op = "run"
    /\ last.kind = "return"
    /\ Len(last.mapping.items) = 3
    /\ last.mapping.items[1].value = Mat
    /\ last.mapping = last.constants

C19_WitnessRaise ==
    /\ last.op = "run"
    /\ last.kind = "raise"
    /\ last.at = 144
    /\ last.created \in Paths
    /\ last.mapping.items[1].value = Cube

====
